---- MODULE Spec2Model ----
(***************************************************************************)
(* RISC-V back-end glue of HotSpot:                                        *)
(*   - VM_Version::setup_cpu_available_features() and its helpers          *)
(*     (src/hotspot/os_cpu/linux_riscv/vm_version_linux_riscv.cpp)         *)
(*   - C2SafepointPollStub / C2EntryBarrierStub                            *)
(*     (src/hotspot/cpu/riscv/c2_CodeStubs_riscv.cpp)                      *)
(*                                                                         *)
(* C strings are sequences of one-character strings without the           *)
(* terminating NUL.  A 64-bit word used as a bit mask (AT_HWCAP,           *)
(* _features, feature_bit()) is the set of its set bit positions, so       *)
(* that & is \cap and | is \cup.                                           *)
(***************************************************************************)
EXTENDS Integers, Sequences, FiniteSets, TLC

VARIABLES
  pc,               \* position inside setup_cpu_available_features()
  hwprobe_ok,       \* result of RiscvHwprobe::probe_features()
  auxv,             \* os_aux_features(): getauxval(AT_HWCAP), {} until read
  enabled,          \* RVFeatureValue::_enabled of every registry entry
  value,            \* RVFeatureValue::_value of every registry entry
  fopen_ok,         \* os_uarch_additional_features(): f != nullptr
  cpuinfo,          \* the lines of /proc/cpuinfo (indices into LineTable)
  f_pos,            \* number of lines fgets() has returned
  processed,        \* number of lines the loop body has run on
  mode,             \* os_uarch_additional_features(): local 'mode'
  uarch,            \* os_uarch_additional_features(): 'ret', later 'uarch'
  heap_overrun,     \* bytes written past the end of the strdup'ed block
  flags_updated,    \* registry entries whose update_flag() has run
  _features,        \* VM_Version::_features
  _features_string, \* VM_Version::_features_string (<<>> until set)
  UseRVC,           \* the compressed-instruction flag the assembler consults
  code,             \* the bytes of the code buffer, offset() = Len(code)
  relocs,           \* the relocations recorded for the buffer
  stub,             \* kind of the stub emitted: "none", "safepoint", "barrier"
  stub_start,       \* offset() when emit() was entered
  entry,            \* offset bound to entry(), -1 while unbound
  guard,            \* offset bound to guard(), -1 while unbound
  written,          \* the values stored to the guard word so far
  patches,          \* stores the patching thread has completed
  st_part,          \* the patching thread's store: 0 idle, 1 first part done
  st_val,           \* the value the store in progress writes
  ld_part,          \* per executing thread, its load: 0 idle, 1 first part done
  ld_lo,            \* per executing thread, the bytes its first part read
  ld_val,           \* per executing thread, the last value it loaded, -1: none
  loads             \* per executing thread, loads completed

cpuvars == <<pc, hwprobe_ok, auxv, enabled, value, fopen_ok, cpuinfo, f_pos,
             processed, mode, uarch, heap_overrun, flags_updated, _features,
             _features_string>>

stubvars == <<UseRVC, code, relocs, stub, stub_start, entry, guard, written, patches,
              st_part, st_val, ld_part, ld_lo, ld_val, loads>>

-----------------------------------------------------------------------------
(* Bounds *)

\* longest /proc/cpuinfo, in lines
MaxLines == 3

\* instructions of method code that may precede the stub in the buffer
MaxStart == 3

\* stores of the patching thread to the guard word
MaxPatches == 2

\* loads of the guard word by each executing thread
MaxLoads == 2

-----------------------------------------------------------------------------
(* C string helpers *)

Suffix(s, i) == SubSeq(s, i, Len(s))

Take(s, n) == SubSeq(s, 1, IF n < Len(s) THEN n ELSE Len(s))

\* strchr(s, c): 1-based index of the first c in s, 0 for nullptr
strchr(s, c) ==
  IF \E i \in 1..Len(s) : s[i] = c
  THEN CHOOSE i \in 1..Len(s) : s[i] = c /\ \A j \in 1..(i - 1) : s[j] # c
  ELSE 0

\* strncmp(a, b, n) == 0
strncmp0(a, b, n) == Take(a, n) = Take(b, n)

\* strcmp(a, b) == 0
strcmp0(a, b) == a = b

\* strcspn(s, "\n")
strcspn(s, c) == IF strchr(s, c) = 0 THEN Len(s) ELSE strchr(s, c) - 1

UpperAlpha == <<"A","B","C","D","E","F","G","H","I","J","K","L","M",
                "N","O","P","Q","R","S","T","U","V","W","X","Y","Z">>
LowerAlpha == <<"a","b","c","d","e","f","g","h","i","j","k","l","m",
                "n","o","p","q","r","s","t","u","v","w","x","y","z">>

\* 'X' - 'A'
LetterIndex(c) == (CHOOSE i \in 1..26 : UpperAlpha[i] = c) - 1

tolower(c) ==
  IF \E i \in 1..26 : UpperAlpha[i] = c
  THEN LowerAlpha[CHOOSE i \in 1..26 : UpperAlpha[i] = c]
  ELSE c

-----------------------------------------------------------------------------
(* The feature registry *)

BitsPerWord == 64
RV_NO_FLAG_BIT == BitsPerWord + 1

\* nth_bit(n): the word with only bit n set, 0 when n is no bit of a word
nth_bit(n) == IF n >= BitsPerWord THEN {} ELSE {n}

HWCAP_ISA_I == nth_bit(LetterIndex("I"))
HWCAP_ISA_M == nth_bit(LetterIndex("M"))
HWCAP_ISA_A == nth_bit(LetterIndex("A"))
HWCAP_ISA_F == nth_bit(LetterIndex("F"))
HWCAP_ISA_D == nth_bit(LetterIndex("D"))
HWCAP_ISA_C == nth_bit(LetterIndex("C"))
HWCAP_ISA_Q == nth_bit(LetterIndex("Q"))
HWCAP_ISA_H == nth_bit(LetterIndex("H"))
HWCAP_ISA_V == nth_bit(LetterIndex("V"))

VM_NOTSET == -1
VM_MBARE == 0
VM_SV39 == 39
VM_SV48 == 48
VM_SV57 == 57
VM_SV64 == 64

MISALIGNED_SLOW == 2
MISALIGNED_FAST == 3

Feature(n, p, b, fs) ==
  [name |-> n, pretty |-> p, feature_bit |-> b, feature_string |-> fs]

\* _feature_list, in declaration order
feature_list == <<
  Feature("ext_I", <<"i">>, HWCAP_ISA_I, TRUE),
  Feature("ext_M", <<"m">>, HWCAP_ISA_M, TRUE),
  Feature("ext_A", <<"a">>, HWCAP_ISA_A, TRUE),
  Feature("ext_F", <<"f">>, HWCAP_ISA_F, TRUE),
  Feature("ext_D", <<"d">>, HWCAP_ISA_D, TRUE),
  Feature("ext_C", <<"c">>, HWCAP_ISA_C, TRUE),
  Feature("ext_Q", <<"q">>, HWCAP_ISA_Q, TRUE),
  Feature("ext_H", <<"h">>, HWCAP_ISA_H, TRUE),
  Feature("ext_V", <<"v">>, HWCAP_ISA_V, TRUE),
  Feature("ext_Zicbom", <<"Z","i","c","b","o","m">>, nth_bit(RV_NO_FLAG_BIT), TRUE),
  Feature("ext_Zicboz", <<"Z","i","c","b","o","z">>, nth_bit(RV_NO_FLAG_BIT), TRUE),
  Feature("ext_Zicbop", <<"Z","i","c","b","o","p">>, nth_bit(RV_NO_FLAG_BIT), TRUE),
  Feature("ext_Zba", <<"Z","b","a">>, nth_bit(RV_NO_FLAG_BIT), TRUE),
  Feature("ext_Zbb", <<"Z","b","b">>, nth_bit(RV_NO_FLAG_BIT), TRUE),
  Feature("ext_Zbc", <<"Z","b","c">>, nth_bit(RV_NO_FLAG_BIT), TRUE),
  Feature("ext_Zbs", <<"Z","b","s">>, nth_bit(RV_NO_FLAG_BIT), TRUE),
  Feature("ext_Zicsr", <<"Z","i","c","s","r">>, nth_bit(RV_NO_FLAG_BIT), TRUE),
  Feature("ext_Zifencei", <<"Z","i","f","e","n","c","e","i">>, nth_bit(RV_NO_FLAG_BIT), TRUE),
  Feature("ext_Zic64b", <<"Z","i","c","6","4","b">>, nth_bit(RV_NO_FLAG_BIT), TRUE),
  Feature("ext_Zihintpause", <<"Z","i","h","i","n","t","p","a","u","s","e">>,
          nth_bit(RV_NO_FLAG_BIT), TRUE),
  Feature("mvendorid", <<"V","e","n","d","o","r","I","d">>, nth_bit(RV_NO_FLAG_BIT), FALSE),
  Feature("marchid", <<"A","r","c","h","I","d">>, nth_bit(RV_NO_FLAG_BIT), FALSE),
  Feature("mimpid", <<"I","m","p","I","d">>, nth_bit(RV_NO_FLAG_BIT), FALSE),
  Feature("unaligned_access", <<"U","n","a","l","i","g","n","e","d">>,
          nth_bit(RV_NO_FLAG_BIT), FALSE),
  Feature("satp_mode", <<"S","A","T","P">>, nth_bit(RV_NO_FLAG_BIT), FALSE) >>

FeatureNames == {feature_list[i].name : i \in 1..Len(feature_list)}

\* the ext_* entries (the instruction-set extensions of the registry)
Extensions == {feature_list[i].name : i \in 1..20}

\* RVFeatureValue::enable_feature(value = 0) applied to the pair <<enabled, value>>
enable_feature(reg, n, v) ==
  [en |-> [reg.en EXCEPT ![n] = TRUE], val |-> [reg.val EXCEPT ![n] = v]]

Registry == [en |-> enabled, val |-> value]

-----------------------------------------------------------------------------
(* /proc/cpuinfo *)

NL == <<"\n">>

\* the text fgets() returns for a line: key, separator, value, newline
Text(l) == l.key \o l.sep \o l.val \o NL

Line(k, s, v) == [key |-> k, sep |-> s, val |-> v]

LineTable == <<
  Line(<<"m","m","u">>, <<" ",":"," ">>, <<"s","v","4","8">>),
  Line(<<"m","m","u">>, <<"\t","\t",":"," ">>, <<"s","v","3","9">>),
  Line(<<"m","m","u">>, <<" ",":"," ">>, <<"n","o","n","e">>),
  Line(<<"u","a","r","c","h">>, <<" ",":"," ">>, <<"s","i","f","i","v","e","-","u","7","4">>),
  Line(<<"u","a","r","c","h">>, <<"\t","\t",":"," ">>, <<"c","9","1","0">>),
  Line(<<"p","r","o","c","e","s","s","o","r">>, <<"\t",":"," ">>, <<"0">>),
  Line(<<"m","m","u">>, <<" ">>, <<"s","v","6","4">>),
  Line(<<>>, <<>>, <<>>) >>

RECURSIVE SeqsUpTo(_, _)
SeqsUpTo(S, n) ==
  IF n = 0 THEN {<<>>}
  ELSE LET shorter == SeqsUpTo(S, n - 1)
       IN  shorter \cup {Append(s, x) : s \in {t \in shorter : Len(t) = n - 1}, x \in S}

\* every file of at most MaxLines lines
Files == SeqsUpTo(1..Len(LineTable), MaxLines)

\* files of at most one line
ShortFiles == SeqsUpTo(1..Len(LineTable), 1)

-----------------------------------------------------------------------------
(* RiscvHwprobe::probe_features(): on success the registry is already        *)
(* populated; an outcome names the extensions it enabled, the mvendorid it   *)
(* read and the misaligned-access performance it read (-1: key not valid)    *)

RIVOS_MVENDORID == 1743

BaseExts == {"ext_I", "ext_M", "ext_A", "ext_F", "ext_D", "ext_C"}

ProbeOutcomes ==
  [exts : {{}, BaseExts, BaseExts \cup {"ext_V", "ext_Zba", "ext_Zbb", "ext_Zbs"}},
   vendor : {-1, RIVOS_MVENDORID, RIVOS_MVENDORID + 1},
   unaligned : {-1, MISALIGNED_SLOW}]

probe_features(reg, o) ==
  LET r1 == [en |-> [n \in FeatureNames |-> reg.en[n] \/ n \in o.exts],
             val |-> [n \in FeatureNames |-> IF n \in o.exts THEN 0 ELSE reg.val[n]]]
      r2 == IF o.vendor # -1 THEN enable_feature(r1, "mvendorid", o.vendor) ELSE r1
  IN  IF o.unaligned # -1 THEN enable_feature(r2, "unaligned_access", o.unaligned) ELSE r2

-----------------------------------------------------------------------------
(* os_aux_features() *)

\* the bits a word of AT_HWCAP is drawn from: the registry's, and 'B'
HwcapBits ==
  UNION {feature_list[i].feature_bit : i \in 1..Len(feature_list)}
    \cup nth_bit(LetterIndex("B"))

HwcapIMA == HWCAP_ISA_I \cup HWCAP_ISA_M \cup HWCAP_ISA_A

\* the words of AT_HWCAP the pipeline is run on
AuxvSmall ==
  { {}, HwcapIMA,
    HwcapIMA \cup HWCAP_ISA_F \cup HWCAP_ISA_D \cup HWCAP_ISA_C \cup HWCAP_ISA_V }

\* every word over HwcapBits
AuxvAll == SUBSET HwcapBits

RECURSIVE aux_loop_subset(_, _, _)
aux_loop_subset(reg, a, i) ==
  IF i > Len(feature_list) THEN reg
  ELSE aux_loop_subset(IF feature_list[i].feature_bit \subseteq a
                       THEN enable_feature(reg, feature_list[i].name, 0)
                       ELSE reg, a, i + 1)

\* the enabling test written (bit & auxv) == bit, true of every entry without a bit
os_aux_features_subset(reg, a) == aux_loop_subset(reg, a, 1)

RECURSIVE aux_loop(_, _, _)
aux_loop(reg, a, i) ==
  IF i > Len(feature_list) THEN reg
  ELSE aux_loop(IF (feature_list[i].feature_bit \cap a) # {}
                THEN enable_feature(reg, feature_list[i].name, 0)
                ELSE reg, a, i + 1)

os_aux_features(reg, a) == aux_loop(reg, a, 1)

-----------------------------------------------------------------------------
(* setup_cpu_available_features(), lines 102-104 *)

Probe(AuxvChoices) ==
  /\ pc = "probe"
  /\ \/ \E o \in ProbeOutcomes :
          /\ hwprobe_ok' = TRUE
          /\ auxv' = auxv
          /\ enabled' = probe_features(Registry, o).en
          /\ value' = probe_features(Registry, o).val
     \/ \E a \in AuxvChoices :
          /\ hwprobe_ok' = FALSE
          /\ auxv' = a
          /\ enabled' = os_aux_features(Registry, a).en
          /\ value' = os_aux_features(Registry, a).val
  /\ pc' = "fopen"
  /\ UNCHANGED <<fopen_ok, cpuinfo, f_pos, processed, mode, uarch, heap_overrun,
                 flags_updated, _features, _features_string>>
  /\ UNCHANGED stubvars

-----------------------------------------------------------------------------
(* os_uarch_additional_features() *)

parse_satp_mode(vm_mode) ==
  IF strcmp0(vm_mode, <<"s","v","3","9">>) THEN VM_SV39
  ELSE IF strcmp0(vm_mode, <<"s","v","4","8">>) THEN VM_SV48
  ELSE IF strcmp0(vm_mode, <<"s","v","5","7">>) THEN VM_SV57
  ELSE IF strcmp0(vm_mode, <<"s","v","6","4">>) THEN VM_SV64
  ELSE VM_MBARE

NullStr == [null |-> TRUE, str |-> <<>>]

\* lines 176-182: fopen("/proc/cpuinfo"), return nullptr when it fails
UarchOpen(FileChoices) ==
  /\ pc = "fopen"
  /\ \/ /\ fopen_ok' = FALSE
        /\ cpuinfo' = <<>>
        /\ pc' = "vendor"
     \/ \E file \in FileChoices :
          /\ fopen_ok' = TRUE
          /\ cpuinfo' = file
          /\ pc' = "scan"
  /\ mode' = VM_NOTSET
  /\ uarch' = NullStr
  /\ UNCHANGED <<hwprobe_ok, auxv, enabled, value, f_pos, processed, heap_overrun,
                 flags_updated, _features, _features_string>>
  /\ UNCHANGED stubvars

\* lines 188-192: the value 'mode' has after the mmu test on buf
scan_mmu(buf, p, m) ==
  IF m = VM_NOTSET /\ strncmp0(buf, <<"m","m","u">>, 3)
  THEN parse_satp_mode(Suffix(buf, p))
  ELSE m

\* line 195: os::strdup(p + 2); every line ends in a newline, so p + 2 is
\* inside the string or at its NUL
strdup_p2(buf, p) == Suffix(buf, p + 2)

\* line 196: ret[strcspn(p, "\n")] = '\0' on a block of Len(ret) + 1 bytes
\* (indices 0 .. Len(ret)): the string and the bytes written past the block
terminate(ret, k) ==
  IF k <= Len(ret) THEN [str |-> Take(ret, k), over |-> 0]
  ELSE [str |-> ret, over |-> k - Len(ret)]

\* lines 193-198: the value 'ret' has after the uarch test on buf
scan_uarch(buf, p, r) ==
  IF r.null /\ strncmp0(buf, <<"u","a","r","c","h">>, 5)
  THEN LET t == terminate(strdup_p2(buf, p), strcspn(Suffix(buf, p), "\n"))
       IN  [null |-> FALSE, str |-> t.str, over |-> t.over]
  ELSE [null |-> r.null, str |-> r.str, over |-> 0]

\* the loop run to the end of the file whatever has been found
scan_continue_always(m, r) == TRUE

\* the loop test of line 186 on the locals
scan_continue(m, r) == m = VM_NOTSET \/ r.null

\* lines 185-200: one iteration of the loop: fgets() returned a line and the
\* loop test held
ScanLine ==
  /\ pc = "scan"
  /\ f_pos < Len(cpuinfo)
  /\ scan_continue(mode, uarch)
  /\ LET buf == Text(LineTable[cpuinfo[f_pos + 1]])
         p == strchr(buf, ":")
     IN  IF p # 0
         THEN /\ mode' = scan_mmu(buf, p, mode)
              /\ uarch' = [null |-> scan_uarch(buf, p, uarch).null,
                           str |-> scan_uarch(buf, p, uarch).str]
              /\ heap_overrun' = heap_overrun + scan_uarch(buf, p, uarch).over
         ELSE UNCHANGED <<mode, uarch, heap_overrun>>
  /\ f_pos' = f_pos + 1
  /\ processed' = processed + 1
  /\ UNCHANGED <<pc, hwprobe_ok, auxv, enabled, value, fopen_ok, cpuinfo,
                 flags_updated, _features, _features_string>>
  /\ UNCHANGED stubvars

\* lines 185-186 failing, then 201-206: fgets() returned nullptr, or it
\* returned a line and the loop test failed
ScanExit ==
  /\ pc = "scan"
  /\ \/ f_pos = Len(cpuinfo) /\ f_pos' = f_pos
     \/ f_pos < Len(cpuinfo) /\ ~scan_continue(mode, uarch) /\ f_pos' = f_pos + 1
  /\ mode' = IF mode = VM_NOTSET THEN VM_MBARE ELSE mode
  /\ enabled' = enable_feature(Registry, "satp_mode", mode').en
  /\ value' = enable_feature(Registry, "satp_mode", mode').val
  /\ pc' = "vendor"
  /\ UNCHANGED <<hwprobe_ok, auxv, fopen_ok, cpuinfo, processed, uarch, heap_overrun,
                 flags_updated, _features, _features_string>>
  /\ UNCHANGED stubvars

-----------------------------------------------------------------------------
(* vendor_features() and rivos_features() *)

\* the extensions rivos_features() enables, in its order
RivosBundle == <<"ext_I", "ext_M", "ext_A", "ext_F", "ext_D", "ext_C", "ext_Q",
                 "ext_H", "ext_V", "ext_Zicbom", "ext_Zicboz", "ext_Zicbop",
                 "ext_Zba", "ext_Zbb", "ext_Zbc", "ext_Zbs", "ext_Zicsr",
                 "ext_Zifencei", "ext_Zic64b", "ext_Zihintpause">>

RECURSIVE enable_all(_, _, _)
enable_all(reg, names, i) ==
  IF i > Len(names) THEN reg
  ELSE enable_all(enable_feature(reg, names[i], 0), names, i + 1)

\* the bundle assigned as the whole enabled set instead of added to it
rivos_features_assign(reg) ==
  LET r == enable_all(reg, RivosBundle, 1)
      t == enable_feature(enable_feature(r, "unaligned_access", MISALIGNED_FAST),
                          "satp_mode", VM_SV48)
  IN  [en |-> [n \in FeatureNames |->
                 n \in {RivosBundle[i] : i \in 1..Len(RivosBundle)}
                       \cup {"unaligned_access", "satp_mode"}],
       val |-> t.val]

rivos_features(reg) ==
  LET r == enable_all(reg, RivosBundle, 1)
  IN  enable_feature(enable_feature(r, "unaligned_access", MISALIGNED_FAST),
                     "satp_mode", VM_SV48)

\* the switch on mvendorid.value() taken without the mvendorid.enabled() test
\* and with the default case falling into the Rivos one
vendor_features_any(reg) == rivos_features(reg)

vendor_features(reg) ==
  IF ~reg.en["mvendorid"] THEN reg
  ELSE IF reg.val["mvendorid"] = RIVOS_MVENDORID THEN rivos_features(reg)
  ELSE reg

\* setup_cpu_available_features(), line 106
Vendor ==
  /\ pc = "vendor"
  /\ enabled' = vendor_features(Registry).en
  /\ value' = vendor_features(Registry).val
  /\ pc' = "string"
  /\ UNCHANGED <<hwprobe_ok, auxv, fopen_ok, cpuinfo, f_pos, processed, mode, uarch,
                 heap_overrun, flags_updated, _features, _features_string>>
  /\ UNCHANGED stubvars

-----------------------------------------------------------------------------
(* setup_cpu_available_features(), lines 108-147 *)

\* char buf[1024]
FeatureBufSize == 1024

\* snprintf(buf, size, "%s,", s): at most size - 1 characters are stored
snprintf_comma(size, s) == Take(s \o <<",">>, size - 1)

\* lines 122-136: buf after the feature's token is appended
append_token(buf, tmp) ==
  IF Len(tmp) = 1 THEN buf \o tmp
  ELSE (buf \o <<"_", tolower(tmp[1])>>) \o Suffix(tmp, 2)

RECURSIVE features_loop(_, _, _)
\* lines 115-145 from index i on; acc is <<buf, _features, updated flags>>
features_loop(reg, acc, i) ==
  IF i > Len(feature_list) THEN acc
  ELSE LET ft == feature_list[i]
       IN  IF reg.en[ft.name]
           THEN features_loop(reg,
                  [buf |-> IF ft.feature_string THEN append_token(acc.buf, ft.pretty)
                           ELSE acc.buf,
                   bits |-> IF ft.feature_bit # {} THEN acc.bits \cup ft.feature_bit
                            ELSE acc.bits,
                   flags |-> acc.flags \cup {ft.name}], i + 1)
           ELSE features_loop(reg, acc, i + 1)

\* lines 108-114: buf before the loop
string_prefix(u) ==
  (IF ~u.null /\ ~strcmp0(u.str, <<>>)
   THEN snprintf_comma(FeatureBufSize \div 2, u.str)
   ELSE <<>>) \o <<"r","v","6","4">>

\* lines 108-147.  os::free() of a block that was written past its end may
\* find the heap corrupted and end the process, or go unnoticed
BuildString ==
  /\ pc = "string"
  /\ \/ /\ heap_overrun > 0
        /\ pc' = "abort"
        /\ UNCHANGED <<flags_updated, _features, _features_string>>
     \/ LET r == features_loop(Registry,
                   [buf |-> string_prefix(uarch), bits |-> _features,
                    flags |-> flags_updated], 1)
        IN  /\ _features_string' = r.buf
            /\ _features' = r.bits
            /\ flags_updated' = r.flags
            /\ pc' = "done"
  /\ UNCHANGED <<hwprobe_ok, auxv, enabled, value, fopen_ok, cpuinfo, f_pos,
                 processed, mode, uarch, heap_overrun>>
  /\ UNCHANGED stubvars

-----------------------------------------------------------------------------
(* Assembler primitives used by the stubs.  A byte of the buffer is a record *)
(* of the primitive that wrote it and, for raw data, its value.  Offsets are *)
(* relative to the start of the code section, which is 4-byte aligned.       *)

\* width of a base instruction
InstWidth == 4

\* width of a compressed instruction
CompressedWidth == 2

\* size bytes written by the primitive op
insn(op, size) == [i \in 1..size |-> [op |-> op, b |-> 0]]

\* the widths a compressible instruction may be encoded in
InsnSizes(rvc) == IF rvc THEN {CompressedWidth, InstWidth} ELSE {InstWidth}

\* movptr(Rd, addr, offset): lui, addi, slli, addi, slli; the low bits of the
\* address are left in offset for the instruction that follows
movptr ==
  insn("lui", InstWidth) \o insn("addi", InstWidth) \o insn("slli", InstWidth)
    \o insn("addi", InstWidth) \o insn("slli", InstWidth)

\* the distances a relocation target can lie at
Distances == {"jal", "auipc", "movptr"}

\* la_patchable(): auipc when the target is within a 32-bit offset of pc,
\* movptr otherwise
la_patchable(dist) == IF dist = "movptr" THEN movptr ELSE insn("auipc", InstWidth)

\* far_jump(): jal when far branches are not needed, la_patchable + jalr
\* otherwise
far_jump(dist) ==
  IF dist = "jal" THEN insn("jal", InstWidth)
  ELSE la_patchable(dist) \o insn("jalr", InstWidth)

RECURSIVE align(_, _, _)
\* align(modulus): nops until offset() is a multiple of modulus
align(c, modulus, rvc) ==
  IF Len(c) % modulus = 0 THEN c
  ELSE align(c \o insn("nop", IF rvc THEN CompressedWidth ELSE InstWidth), modulus, rvc)

\* emit_int32(v), little-endian
emit_int32(v) == [i \in 1..4 |-> [op |-> "int32", b |-> (v \div (256 ^ (i - 1))) % 256]]

-----------------------------------------------------------------------------
(* C2SafepointPollStub *)

C2SafepointPollStub_max_size == 13 * 4

\* emit(): sizes.addi and sizes.sd are the widths the two instructions are
\* encoded in, dist.pc and dist.handler the distances of safepoint_pc and of
\* the handler
C2SafepointPollStub_emit(c, sizes, dist) ==
  LET body == la_patchable(dist.pc) \o insn("addi", sizes.addi) \o insn("sd", sizes.sd)
  IN  [code |-> (c \o body) \o far_jump(dist.handler),
       entry |-> Len(c),
       guard |-> -1,
       relocs |-> {[at |-> Len(c), type |-> "internal_word"],
                   [at |-> Len(c \o body), type |-> "runtime_call"]}]

-----------------------------------------------------------------------------
(* C2EntryBarrierStub *)

C2EntryBarrierStub_max_size == 8 * 4 + 4

\* emit() with the guard value aligned to modulus
C2EntryBarrierStub_emit_aligned(c, rvc, sizes, modulus) ==
  LET call == ((c \o movptr) \o insn("jalr", sizes.jalr)) \o insn("j", sizes.j)
      padded == align(call, modulus, rvc)
  IN  [code |-> padded \o emit_int32(0),
       entry |-> Len(c),
       guard |-> Len(padded),
       relocs |-> {[at |-> Len(padded), type |-> "entry_guard"]}]

\* the guard value aligned to 8 bytes
C2EntryBarrierStub_emit_align8(c, rvc, sizes) ==
  C2EntryBarrierStub_emit_aligned(c, rvc, sizes, 8)

\* the guard value aligned to 2 bytes
C2EntryBarrierStub_emit_align2(c, rvc, sizes) ==
  C2EntryBarrierStub_emit_aligned(c, rvc, sizes, 2)

\* the guard value emitted without the alignment
C2EntryBarrierStub_emit_noalign(c, rvc, sizes) ==
  C2EntryBarrierStub_emit_aligned(c, rvc, sizes, 1)

C2EntryBarrierStub_emit(c, rvc, sizes) ==
  C2EntryBarrierStub_emit_aligned(c, rvc, sizes, 4)

-----------------------------------------------------------------------------
(* Emission of one stub at the current end of the buffer *)

EmitSafepointPoll ==
  /\ stub = "none"
  /\ \E sa \in InsnSizes(UseRVC), ss \in InsnSizes(UseRVC),
        dp \in Distances \ {"jal"}, dh \in Distances :
       LET r == C2SafepointPollStub_emit(code, [addi |-> sa, sd |-> ss],
                                         [pc |-> dp, handler |-> dh])
       IN  /\ code' = r.code
           /\ entry' = r.entry
           /\ guard' = r.guard
           /\ relocs' = relocs \cup r.relocs
  /\ stub' = "safepoint"
  /\ stub_start' = Len(code)
  /\ UNCHANGED <<UseRVC, written, patches, st_part, st_val, ld_part, ld_lo, ld_val, loads>>
  /\ UNCHANGED cpuvars

EmitEntryBarrier ==
  /\ stub = "none"
  /\ \E sj \in InsnSizes(UseRVC), sc \in InsnSizes(UseRVC) :
       LET r == C2EntryBarrierStub_emit(code, UseRVC, [jalr |-> sj, j |-> sc])
       IN  /\ code' = r.code
           /\ entry' = r.entry
           /\ guard' = r.guard
           /\ relocs' = relocs \cup r.relocs
  /\ stub' = "barrier"
  /\ stub_start' = Len(code)
  /\ UNCHANGED <<UseRVC, written, patches, st_part, st_val, ld_part, ld_lo, ld_val, loads>>
  /\ UNCHANGED cpuvars

-----------------------------------------------------------------------------
(* The guard word after emission: one patching thread stores to it, the      *)
(* threads running the entry sequence load it.  A 4-byte access to a 4-byte  *)
(* aligned address is single-copy atomic; an access that crosses a 4-byte    *)
(* boundary is performed as two accesses, one on each side of the boundary.  *)

Threads == {"t1", "t2"}

\* the values the patching thread stores
PatchValues == {0, 65537}

\* bytes of a 4-byte access at offset a that lie before the next 4-byte boundary
FirstPart(a) == 4 - (a % 4)

Byte(v, i) == (v \div (256 ^ (i - 1))) % 256

\* the buffer with bytes from..to of the word at offset a taken from v
store_bytes(c, a, v, from, to) ==
  [i \in 1..Len(c) |->
     IF i >= a + from /\ i <= a + to THEN [op |-> c[i].op, b |-> Byte(v, i - a)] ELSE c[i]]

RECURSIVE load_bytes(_, _, _, _)
\* the value of bytes from..to of the word at offset a, in their place in the word
load_bytes(c, a, from, to) ==
  IF from > to THEN 0
  ELSE c[a + from].b * (256 ^ (from - 1)) + load_bytes(c, a, from + 1, to)

GuardStore ==
  /\ stub = "barrier"
  /\ \/ /\ st_part = 0
        /\ patches < MaxPatches
        /\ \E v \in PatchValues \ {load_bytes(code, guard, 1, 4)} :
             /\ written' = written \cup {v}
             /\ st_val' = v
             /\ IF guard % 4 = 0
                THEN /\ code' = store_bytes(code, guard, v, 1, 4)
                     /\ patches' = patches + 1
                     /\ st_part' = 0
                ELSE /\ code' = store_bytes(code, guard, v, 1, FirstPart(guard))
                     /\ patches' = patches
                     /\ st_part' = 1
     \/ /\ st_part = 1
        /\ code' = store_bytes(code, guard, st_val, FirstPart(guard) + 1, 4)
        /\ patches' = patches + 1
        /\ st_part' = 0
        /\ UNCHANGED <<written, st_val>>
  /\ UNCHANGED <<UseRVC, relocs, stub, stub_start, entry, guard, ld_part, ld_lo, ld_val, loads>>
  /\ UNCHANGED cpuvars

GuardLoad(t) ==
  /\ stub = "barrier"
  /\ \/ /\ ld_part[t] = 0
        /\ loads[t] < MaxLoads
        /\ IF guard % 4 = 0
           THEN /\ ld_val' = [ld_val EXCEPT ![t] = load_bytes(code, guard, 1, 4)]
                /\ loads' = [loads EXCEPT ![t] = @ + 1]
                /\ UNCHANGED <<ld_part, ld_lo>>
           ELSE /\ ld_lo' = [ld_lo EXCEPT ![t] = load_bytes(code, guard, 1, FirstPart(guard))]
                /\ ld_part' = [ld_part EXCEPT ![t] = 1]
                /\ UNCHANGED <<ld_val, loads>>
     \/ /\ ld_part[t] = 1
        /\ ld_val' = [ld_val EXCEPT ![t] =
                        ld_lo[t] + load_bytes(code, guard, FirstPart(guard) + 1, 4)]
        /\ loads' = [loads EXCEPT ![t] = @ + 1]
        /\ ld_part' = [ld_part EXCEPT ![t] = 0]
        /\ UNCHANGED ld_lo
  /\ UNCHANGED <<UseRVC, code, relocs, stub, stub_start, entry, guard, written, patches,
                 st_part, st_val>>
  /\ UNCHANGED cpuvars

\* the offsets a stub can start at: instructions are 4 bytes wide, or 2 and 4
\* when compressed instructions are in use
StartOffsets(rvc) ==
  {n * (IF rvc THEN CompressedWidth ELSE InstWidth) : n \in 0..MaxStart}

\* the buffer before any stub is emitted, holding n bytes of method code
InitStub(rvc, n) ==
  /\ UseRVC = rvc
  /\ code = insn("body", n)
  /\ relocs = {}
  /\ stub = "none"
  /\ stub_start = -1
  /\ entry = -1
  /\ guard = -1
  /\ written = {0}
  /\ patches = 0
  /\ st_part = 0
  /\ st_val = 0
  /\ ld_part = [t \in Threads |-> 0]
  /\ ld_lo = [t \in Threads |-> 0]
  /\ ld_val = [t \in Threads |-> -1]
  /\ loads = [t \in Threads |-> 0]

-----------------------------------------------------------------------------
(* The detection pipeline *)

InitCpu ==
  /\ pc = "probe"
  /\ hwprobe_ok = FALSE
  /\ auxv = {}
  /\ enabled = [n \in FeatureNames |-> FALSE]
  /\ value = [n \in FeatureNames |-> -1]
  /\ fopen_ok = FALSE
  /\ cpuinfo = <<>>
  /\ f_pos = 0
  /\ processed = 0
  /\ mode = VM_NOTSET
  /\ uarch = NullStr
  /\ heap_overrun = 0
  /\ flags_updated = {}
  /\ _features = {}
  /\ _features_string = <<>>

vars == <<cpuvars, stubvars>>

Init == InitCpu /\ InitStub(FALSE, 0)

Next ==
  \/ Probe(AuxvSmall)
  \/ UarchOpen(Files)
  \/ ScanLine
  \/ ScanExit
  \/ Vendor
  \/ BuildString

Spec == Init /\ [][Next]_vars

\* every AT_HWCAP word, short files
NextHwcap ==
  \/ Probe(AuxvAll)
  \/ UarchOpen(ShortFiles)
  \/ ScanLine
  \/ ScanExit
  \/ Vendor
  \/ BuildString

SpecHwcap == Init /\ [][NextHwcap]_vars

\* emission of a stub, then the guard word under concurrent access
InitStubs == InitCpu /\ \E rvc \in BOOLEAN : \E n \in StartOffsets(rvc) : InitStub(rvc, n)

NextStubs ==
  \/ EmitSafepointPoll
  \/ EmitEntryBarrier
  \/ GuardStore
  \/ \E t \in Threads : GuardLoad(t)

SpecStubs == InitStubs /\ [][NextStubs]_vars

-----------------------------------------------------------------------------
(* Properties of the detection pipeline *)

HasColon(l) == \E j \in 1..Len(Text(l)) : Text(l)[j] = ":"

\* the lines of a file that carry the field named key
FieldLines(file, key) ==
  {i \in 1..Len(file) : LineTable[file[i]].key = key /\ HasColon(LineTable[file[i]])}

\* the lines of a file that start with key
KeyLines(file, key) ==
  {i \in 1..Len(file) : Take(Text(LineTable[file[i]]), Len(key)) = key}

First(S) == CHOOSE i \in S : \A j \in S : i <= j

ExtEnabled == {n \in Extensions : enabled[n]}

\* C1: with every detection source unavailable the pipeline ends with the
\* features string "rv64", no extension enabled, an empty aggregate mask and
\* satp_mode set to VM_MBARE.
C1_AllSourcesUnavailable ==
  (pc = "done" /\ ~hwprobe_ok /\ auxv = {} /\ ~fopen_ok /\ ~enabled["mvendorid"])
    => /\ _features_string = <<"r","v","6","4">>
       /\ ExtEnabled = {}
       /\ _features = {}
       /\ enabled["satp_mode"]
       /\ value["satp_mode"] = VM_MBARE

\* the mode a value of the mmu field names
ModeNamed(v) ==
  CASE v = <<"s","v","3","9">> -> 39
    [] v = <<"s","v","4","8">> -> 48
    [] v = <<"s","v","5","7">> -> 57
    [] v = <<"s","v","6","4">> -> 64
    [] OTHER -> 0

\* the first line starting with "mmu", if any, has the form mmu : <m>
MmuWellFormed(file) ==
  KeyLines(file, <<"m","m","u">>) # {}
    => First(KeyLines(file, <<"m","m","u">>)) \in FieldLines(file, <<"m","m","u">>)

ExpectedMode(file) ==
  IF KeyLines(file, <<"m","m","u">>) = {} THEN 0
  ELSE ModeNamed(LineTable[file[First(KeyLines(file, <<"m","m","u">>))]].val)

\* C2: when os_uarch_additional_features() returns, satp_mode is enabled with
\* the mode named by the first mmu line of the file (sv39, sv48, sv57, sv64),
\* and with bare when the name is unrecognized or there is no mmu line.
C2_MmuLineSetsSatpMode ==
  (pc = "vendor" /\ fopen_ok /\ MmuWellFormed(cpuinfo))
    => /\ enabled["satp_mode"]
       /\ value["satp_mode"] = ExpectedMode(cpuinfo)

\* the value of the first uarch line of the file
UarchNamed(file) == LineTable[file[First(FieldLines(file, <<"u","a","r","c","h">>))]].val

\* C3: the micro-architecture name taken from a line uarch : <X> is exactly
\* <X>, is written only inside the copied string's own block, and prefixes the
\* features string as <X>,rv64.
C3_UarchExact ==
  /\ ~uarch.null => /\ uarch.str = UarchNamed(cpuinfo)
                    /\ heap_overrun = 0
  /\ (pc = "done" /\ ~uarch.null)
       => Take(_features_string, Len(UarchNamed(cpuinfo)) + 5)
            = UarchNamed(cpuinfo) \o <<",","r","v","6","4">>

\* the token each extension contributes to the features string, in registry
\* order, and its bit of AT_HWCAP (-1: none)
ExtTokens == <<
  [ext |-> "ext_I", bit |-> 8, tok |-> <<"i">>],
  [ext |-> "ext_M", bit |-> 12, tok |-> <<"m">>],
  [ext |-> "ext_A", bit |-> 0, tok |-> <<"a">>],
  [ext |-> "ext_F", bit |-> 5, tok |-> <<"f">>],
  [ext |-> "ext_D", bit |-> 3, tok |-> <<"d">>],
  [ext |-> "ext_C", bit |-> 2, tok |-> <<"c">>],
  [ext |-> "ext_Q", bit |-> 16, tok |-> <<"q">>],
  [ext |-> "ext_H", bit |-> 7, tok |-> <<"h">>],
  [ext |-> "ext_V", bit |-> 21, tok |-> <<"v">>],
  [ext |-> "ext_Zicbom", bit |-> -1, tok |-> <<"_","z","i","c","b","o","m">>],
  [ext |-> "ext_Zicboz", bit |-> -1, tok |-> <<"_","z","i","c","b","o","z">>],
  [ext |-> "ext_Zicbop", bit |-> -1, tok |-> <<"_","z","i","c","b","o","p">>],
  [ext |-> "ext_Zba", bit |-> -1, tok |-> <<"_","z","b","a">>],
  [ext |-> "ext_Zbb", bit |-> -1, tok |-> <<"_","z","b","b">>],
  [ext |-> "ext_Zbc", bit |-> -1, tok |-> <<"_","z","b","c">>],
  [ext |-> "ext_Zbs", bit |-> -1, tok |-> <<"_","z","b","s">>],
  [ext |-> "ext_Zicsr", bit |-> -1, tok |-> <<"_","z","i","c","s","r">>],
  [ext |-> "ext_Zifencei", bit |-> -1, tok |-> <<"_","z","i","f","e","n","c","e","i">>],
  [ext |-> "ext_Zic64b", bit |-> -1, tok |-> <<"_","z","i","c","6","4","b">>],
  [ext |-> "ext_Zihintpause", bit |-> -1,
   tok |-> <<"_","z","i","h","i","n","t","p","a","u","s","e">>] >>

RECURSIVE Rendered(_, _)
\* the tokens of the extensions of the set en, from entry i on
Rendered(en, i) ==
  IF i > Len(ExtTokens) THEN <<>>
  ELSE (IF ExtTokens[i].ext \in en THEN ExtTokens[i].tok ELSE <<>>) \o Rendered(en, i + 1)

\* C4: with hwprobe unavailable the enabled extensions are exactly those whose
\* bit is set in AT_HWCAP and _features holds exactly those bits; the features
\* string is "rv64" (after the uarch prefix, if any) followed in registry order
\* by the letter of each enabled single-letter extension and by '_' and the
\* lower-cased name of each enabled multi-letter one, so it is determined by
\* the enabled set; the bits I, M, A alone give "rv64ima".
C4_HwcapString ==
  pc = "done" =>
    /\ ~hwprobe_ok =>
         /\ ExtEnabled = {ExtTokens[i].ext : i \in {j \in 1..20 : ExtTokens[j].bit \in auxv}}
         /\ _features = auxv \cap {ExtTokens[i].bit : i \in 1..20}
    /\ _features_string =
         (IF uarch.null \/ uarch.str = <<>> THEN <<>> ELSE uarch.str \o <<",">>)
           \o <<"r","v","6","4">> \o Rendered(ExtEnabled, 1)
    /\ (~hwprobe_ok /\ auxv = {0, 8, 12} /\ uarch.null)
         => _features_string = <<"r","v","6","4","i","m","a">>

C4_Witness ==
  /\ pc = "done" /\ ~hwprobe_ok /\ auxv = {0, 8, 12} /\ uarch.null
  /\ ExtEnabled = {"ext_I", "ext_M", "ext_A"}
  /\ _features_string = <<"r","v","6","4","i","m","a">>

Changed(n) == enabled'[n] # enabled[n] \/ value'[n] # value[n]

\* C5 as stated: the only changes vendor_features() makes to a registry entry
\* are moving it from disabled to enabled (which sets a tunable that was still
\* unset); an entry an earlier source enabled is neither disabled nor given
\* another value.
C5_VendorMonotonic ==
  [][pc = "vendor" => \A n \in FeatureNames : Changed(n) => (~enabled[n] /\ enabled'[n])]_vars

VendorMatches == enabled["mvendorid"] /\ value["mvendorid"] = RIVOS_MVENDORID

\* C5 as amended: vendor_features() never disables a registry entry; it
\* enables entries only on a vendor match; mvendorid, marchid and mimpid are
\* left alone; the tunables unaligned_access and satp_mode change only on a
\* vendor match, and then to MISALIGNED_FAST and VM_SV48 whatever an earlier
\* source had set them to.
C5_VendorNeverDisables ==
  [][pc = "vendor" =>
       /\ \A n \in FeatureNames : enabled[n] => enabled'[n]
       /\ ~VendorMatches => enabled' = enabled
       /\ \A n \in {"mvendorid", "marchid", "mimpid"} : ~Changed(n)
       /\ Changed("unaligned_access")
            => VendorMatches /\ value'["unaligned_access"] = 3
       /\ Changed("satp_mode")
            => VendorMatches /\ value'["satp_mode"] = 48]_vars

\* the cpuinfo parse had set satp_mode to bare and hwprobe had set
\* unaligned_access to slow; the vendor overlay then replaced both
C5_Witness ==
  /\ pc = "string" /\ VendorMatches /\ fopen_ok /\ mode = VM_MBARE
  /\ hwprobe_ok /\ value["satp_mode"] = VM_SV48
  /\ value["unaligned_access"] = MISALIGNED_FAST
  /\ \A n \in BaseExts : enabled[n]

\* C6: with mvendorid enabled and equal to 0x6cf the pipeline ends with every
\* extension of the vendor bundle enabled, unaligned_access = MISALIGNED_FAST
\* and satp_mode = VM_SV48, whatever the earlier stages produced; with any
\* other mvendorid, or mvendorid not enabled, vendor_features() changes no
\* registry entry.
C6_RivosOverlay ==
  /\ [](  (pc \in {"string", "done"} /\ enabled["mvendorid"]
           /\ value["mvendorid"] = (14 - 1) * 128 + 79)
            => /\ \A i \in 1..20 : enabled[ExtTokens[i].ext]
               /\ enabled["unaligned_access"] /\ value["unaligned_access"] = 3
               /\ enabled["satp_mode"] /\ value["satp_mode"] = 48)
  /\ [][(pc = "vendor" /\ ~(enabled["mvendorid"]
                             /\ value["mvendorid"] = (14 - 1) * 128 + 79))
          => (enabled' = enabled /\ value' = value)]_vars

C6_Witness ==
  /\ pc = "done" /\ VendorMatches /\ fopen_ok /\ Len(cpuinfo) > 0
  /\ ExtEnabled = Extensions
  /\ value["satp_mode"] = VM_SV48 /\ value["unaligned_access"] = MISALIGNED_FAST

\* C7: once both fields are found the scan runs its body on no further line
\* and leaves the result as it is; while a field is missing every line up to
\* the end of the file is run on, a line without ':' changes nothing and the
\* scan goes on, the mmu and the uarch field are taken on whatever line and
\* in whatever order they come, and at the end of the file the scan ends.
C7_ScanHalts ==
  [][pc = "scan" =>
       /\ (mode # VM_NOTSET /\ ~uarch.null)
            => (processed' = processed /\ uarch' = uarch /\ mode' = mode
                /\ pc' = "vendor" /\ value'["satp_mode"] = mode)
       /\ f_pos = Len(cpuinfo) => (pc' = "vendor" /\ processed' = processed)
       /\ ((mode = VM_NOTSET \/ uarch.null) /\ f_pos < Len(cpuinfo))
            => (processed' = processed + 1 /\ f_pos' = f_pos + 1 /\ pc' = "scan")
       /\ processed' = processed + 1 =>
            LET l == LineTable[cpuinfo[f_pos + 1]]
            IN  /\ ~HasColon(l) => (mode' = mode /\ uarch' = uarch)
                /\ (HasColon(l) /\ l.key = <<"m","m","u">> /\ mode = VM_NOTSET)
                     => mode' # VM_NOTSET
                /\ (HasColon(l) /\ l.key = <<"u","a","r","c","h">> /\ uarch.null)
                     => ~uarch'.null
                /\ mode # VM_NOTSET => mode' = mode
                /\ ~uarch.null => uarch' = uarch]_vars

\* both fields were found and a line carrying one of them followed: it was
\* read by fgets() and not run on
C7_Witness ==
  /\ pc = "vendor" /\ fopen_ok /\ ~uarch.null
  /\ processed < f_pos
  /\ f_pos \in FieldLines(cpuinfo, <<"m","m","u">>)
                 \cup FieldLines(cpuinfo, <<"u","a","r","c","h">>)
  /\ FieldLines(cpuinfo, <<"m","m","u">>) # {}
  /\ First(FieldLines(cpuinfo, <<"u","a","r","c","h">>))
       < First(FieldLines(cpuinfo, <<"m","m","u">>))

-----------------------------------------------------------------------------
(* Properties of the stubs *)

StubSize == Len(code) - stub_start

\* C8: the bytes emit() writes never exceed max_size(), 52 bytes for the
\* safepoint poll stub and 36 bytes for the entry barrier stub with its
\* alignment padding, on the short and on the long jump path and from every
\* starting offset.
C8_EmitWithinMaxSize ==
  /\ stub = "safepoint" => (StubSize <= C2SafepointPollStub_max_size /\ StubSize <= 52)
  /\ stub = "barrier" => (StubSize <= C2EntryBarrierStub_max_size /\ StubSize <= 36)

\* the safepoint poll stub at its largest: the handler and safepoint_pc both
\* out of the reach of auipc, no instruction compressed
C8_Witness ==
  /\ stub = "safepoint" /\ StubSize = 52 /\ stub_start % 4 = 2
  /\ code[Len(code)].op = "jalr"

\* C9: after C2EntryBarrierStub::emit() the offset bound to guard() is a
\* multiple of 4, the four bytes of the guard value start exactly there and end
\* the stub, they hold 0 until the first store to them, and the entry_guard
\* relocation is recorded at that offset, from every starting offset.
C9_GuardAligned ==
  stub = "barrier" =>
    /\ guard % 4 = 0
    /\ guard + 4 = Len(code)
    /\ \A i \in 1..4 : code[guard + i].op = "int32"
    /\ \A i \in (stub_start + 1)..guard : code[i].op # "int32"
    /\ (patches = 0 /\ st_part = 0) => \A i \in 1..4 : code[guard + i].b = 0
    /\ [at |-> guard, type |-> "entry_guard"] \in relocs

\* the stub started at an offset that is only 2-byte aligned and the guard
\* value needed padding
C9_Witness ==
  /\ stub = "barrier" /\ stub_start % 4 = 2 /\ code[guard].op = "nop"
  /\ guard % 4 = 0 /\ patches = 0

\* C10: every load of the guard word by an executing thread returns a value
\* that was stored to it as a whole (the initial 0 or a value the patching
\* thread stored), never a mix of the bytes of two values.
C10_NoTornRead ==
  \A t \in Threads : ld_val[t] # -1 => ld_val[t] \in written

\* two threads loaded the word around a store: one saw the old value, the
\* other the new one
C10_Witness ==
  /\ stub = "barrier" /\ stub_start % 4 = 2
  /\ ld_val["t1"] = 0 /\ ld_val["t2"] = 65537 /\ patches = 1

====
